---- MODULE Spec2Model ----
(***************************************************************************)
(* A model of regma (src/regma.py), a combinator library for building      *)
(* lexers, and of the postfix example (src/examples/postfix_notation.py).  *)
(*                                                                         *)
(* A stream is a sequence of one-character strings.  A rule is a record    *)
(*   [kind, text, rules]                                                   *)
(* where kind is the Python class, text the `pattern` field of a Literal   *)
(* or Regex, and rules the children: `rules` of a Seq / Alt, <<rule>> of a *)
(* Repeating / Atom / Maybe and <<rule, discard>> of an Ignore, with       *)
(* NoRule for a field left None.  A plain Python string handed to a        *)
(* builder is the record of kind "str".                                    *)
(*                                                                         *)
(* The outcome of a call is a record [kind, stream, match, rule]:          *)
(*   "ok"             the returned tuple (stream, match)                   *)
(*   "FailedMatching" the raised FailedMatching((stream, rule))            *)
(*   "TypeError"      a TypeError raised by the interpreter                *)
(*   "re.error"       an re.error raised by re.match                       *)
(*   "AssertionError" a failed assert (a rule field left None)             *)
(*   "diverge"        the call never returns                               *)
(***************************************************************************)
EXTENDS Integers, Sequences, FiniteSets, TLC

\* Longest stream drawn for the enumerated inputs.
MaxLen == 2

\* Iterations of a Repeating loop that are followed step by step.
MaxIter == 6

\* Largest count handed to exactly(n) / many(m, n).
MaxCount == 2

----------------------------------------------------------------------------
(* Characters and strings *)

\* The characters the model knows, in ASCII order.
Ascii ==
  << "\t", "\n", " ", "*", "+", "-", "/",
     "0", "1", "2", "3", "4", "5", "6", "7", "8", "9",
     "[", "\\", "]", "^", "a", "b", "c", "d", "s", "x" >>

Chars == { Ascii[i] : i \in DOMAIN Ascii }

ord(c) == CHOOSE i \in DOMAIN Ascii : Ascii[i] = c

Digits == { "0", "1", "2", "3", "4", "5", "6", "7", "8", "9" }

\* str.isspace / the class \s, restricted to Chars.
SpaceChars == { " ", "\t", "\n" }

\* stream[n:]
Drop(s, n) == SubSeq(s, n + 1, Len(s))

\* Length of the longest prefix of s whose characters are all in cls.
RunLen(cls, s) ==
  CHOOSE n \in 0..Len(s) :
    /\ \A i \in 1..n : s[i] \in cls
    /\ (n < Len(s) => s[n + 1] \notin cls)

\* str.lstrip()
lstrip(s) == Drop(s, RunLen(SpaceChars, s))

\* str.startswith(prefix)
startswith(s, prefix) ==
  /\ Len(prefix) <= Len(s)
  /\ SubSeq(s, 1, Len(prefix)) = prefix

----------------------------------------------------------------------------
(* re.match(pattern, string) for every pattern over Chars.  With these     *)
(* characters a pattern is a concatenation of items                        *)
(*   item  ::=  atom quant | ^ | \b                                        *)
(*   atom  ::=  c | \escape | [items] | [^items]                           *)
(*   quant ::=  (none) | * | + | *+ | ++                                   *)
(* and anything else is an re.error.  A value that is used more than once  *)
(* is bound by CHOOSE r \in { F(x) : x \in { value } } : TRUE, which is     *)
(* F(value) with the value computed once.                                  *)

\* ord(c) for the characters of Ascii, in the same order.
AsciiCode ==
  << 9, 10, 32, 42, 43, 45, 47,
     48, 49, 50, 51, 52, 53, 54, 55, 56, 57,
     91, 92, 93, 94, 97, 98, 99, 100, 115, 120 >>

Code(c) == AsciiCode[ord(c)]

\* The characters of Chars whose code lies in lo..hi.
CharsIn(lo, hi) == { c \in Chars : lo <= Code(c) /\ Code(c) <= hi }

OCTDIGITS == { "0", "1", "2", "3", "4", "5", "6", "7" }

\* sre_parse.HEXDIGITS, restricted to Chars.
HEXDIGITS == Digits \cup { "a", "b", "c", "d" }

\* sre_parse.ASCIILETTERS, restricted to Chars.
ASCIILETTERS == { "a", "b", "c", "d", "s", "x" }

\* The class \w, restricted to Chars.
WordChars == Digits \cup ASCIILETTERS

\* int(c, 16) of one digit.
DigitVal(c) == IF c \in Digits THEN Code(c) - Code("0") ELSE Code(c) - Code("a") + 10

\* int(p[from .. from+cnt-1], base)
RECURSIVE NumVal(_, _, _, _)
NumVal(p, from, cnt, base) ==
  IF cnt = 0 THEN 0
  ELSE NumVal(p, from, cnt - 1, base) * base + DigitVal(p[from + cnt - 1])

\* len(source.getwhile(n, charset)) with the source at p[from].
getwhile(p, from, n, charset) ==
  CHOOSE k \in 0..n :
    /\ \A m \in 0..(k - 1) : from + m <= Len(p) /\ p[from + m] \in charset
    /\ (k = n \/ from + k > Len(p) \/ p[from + k] \notin charset)

\* Parsed escapes and atoms: err for re.error, next the index after the
\* atom, t its type ("set", "AT_BOUNDARY", "AT_BEGINNING"), lit whether it is
\* a single LITERAL with the given code, set the characters it matches.
ParseError == [ err |-> TRUE, next |-> 0, t |-> "set", lit |-> FALSE, code |-> 0, set |-> {} ]

LITERAL(code, next) ==
  [ err |-> FALSE, next |-> next, t |-> "set", lit |-> TRUE, code |-> code,
    set |-> CharsIn(code, code) ]

CharSet(set, next) ==
  [ err |-> FALSE, next |-> next, t |-> "set", lit |-> FALSE, code |-> 0, set |-> set ]

AT(t, next) ==
  [ err |-> FALSE, next |-> next, t |-> t, lit |-> FALSE, code |-> 0, set |-> {} ]

\* \xhh, at the backslash p[i].
HexEscape(p, i) ==
  IF getwhile(p, i + 2, 2, HEXDIGITS) # 2 THEN ParseError
  ELSE LITERAL(NumVal(p, i + 2, 2, 16), i + 4)

\* An octal escape of 1 + k digits, at the backslash p[i].
OctEscape(p, i, k) ==
  LET c == NumVal(p, i + 1, k + 1, 8)
  IN  IF c > 255 THEN ParseError ELSE LITERAL(c, i + 2 + k)

\* sre_parse._class_escape: the escape at p[i] inside a class.
_class_escape(p, i) ==
  IF i + 1 > Len(p) THEN ParseError
  ELSE LET c == p[i + 1]
       IN  IF c = "a" THEN LITERAL(7, i + 2)
           ELSE IF c = "b" THEN LITERAL(8, i + 2)
           ELSE IF c = "d" THEN CharSet(Digits, i + 2)
           ELSE IF c = "s" THEN CharSet(SpaceChars, i + 2)
           ELSE IF c = "x" THEN HexEscape(p, i)
           ELSE IF c \in OCTDIGITS THEN OctEscape(p, i, getwhile(p, i + 2, 2, OCTDIGITS))
           ELSE IF c \in Digits THEN ParseError
           ELSE IF c \in ASCIILETTERS THEN ParseError
           ELSE LITERAL(Code(c), i + 2)

\* sre_parse._escape: the escape at p[i] outside a class.  A pattern over
\* Chars has no group, so every group reference is an error.
_escape(p, i) ==
  IF i + 1 > Len(p) THEN ParseError
  ELSE LET c == p[i + 1]
       IN  IF c = "d" THEN CharSet(Digits, i + 2)
           ELSE IF c = "s" THEN CharSet(SpaceChars, i + 2)
           ELSE IF c = "b" THEN AT("AT_BOUNDARY", i + 2)
           ELSE IF c = "a" THEN LITERAL(7, i + 2)
           ELSE IF c = "x" THEN HexEscape(p, i)
           ELSE IF c = "0" THEN OctEscape(p, i, getwhile(p, i + 2, 2, OCTDIGITS))
           ELSE IF c \in Digits
             THEN IF c \in OCTDIGITS /\ getwhile(p, i + 2, 2, OCTDIGITS) = 2
                    THEN OctEscape(p, i, 2)
                    ELSE ParseError
           ELSE IF c \in ASCIILETTERS THEN ParseError
           ELSE LITERAL(Code(c), i + 2)

\* One member of a class, at p[i].
ClassCode(p, i) == IF p[i] = "\\" THEN _class_escape(p, i) ELSE LITERAL(Code(p[i]), i + 1)

\* The class after the member code1, read first, and the range end code2:
\* both ends of a range are single characters, in order.
RECURSIVE ClassItems(_, _, _, _)
ClassRange(p, set, code1, code2) ==
  IF code2.err \/ ~code1.lit \/ ~code2.lit THEN ParseError
  ELSE IF code2.code < code1.code THEN ParseError
  ELSE ClassItems(p, code2.next, FALSE, set \cup CharsIn(code1.code, code2.code))

\* The class after its member code1: a "-" that follows opens a range,
\* unless it is the last character of the class.
ClassMember(p, set, code1) ==
  IF code1.err THEN ParseError
  ELSE IF code1.next <= Len(p) /\ p[code1.next] = "-"
    THEN IF code1.next + 1 > Len(p) THEN ParseError
         ELSE IF p[code1.next + 1] = "]"
           THEN CharSet(set \cup code1.set \cup { "-" }, code1.next + 2)
         ELSE CHOOSE r \in { ClassRange(p, set, code1, code2) :
                                code2 \in { ClassCode(p, code1.next + 1) } } : TRUE
  ELSE ClassItems(p, code1.next, FALSE, set \cup code1.set)

\* The members of the class from p[i] on: first while none has been read,
\* set the characters collected so far.  A "]" read first is a member.
ClassItems(p, i, first, set) ==
  IF i > Len(p) THEN ParseError
  ELSE IF p[i] = "]" /\ ~first THEN CharSet(set, i + 1)
  ELSE CHOOSE r \in { ClassMember(p, set, code1) : code1 \in { ClassCode(p, i) } } : TRUE

\* The class with the given members, negated or not.
ClassOf(negate, items) ==
  IF items.err THEN ParseError
  ELSE IF negate THEN CharSet(Chars \ items.set, items.next)
  ELSE items

\* The class that opens at p[i] = "[".
Class(p, i) ==
  IF i + 1 <= Len(p) /\ p[i + 1] = "^"
    THEN ClassOf(TRUE, ClassItems(p, i + 2, TRUE, {}))
    ELSE ClassOf(FALSE, ClassItems(p, i + 1, TRUE, {}))

\* The atom at p[i].  A repeat character with nothing to repeat is an error.
ParseAtom(p, i) ==
  IF p[i] = "\\" THEN _escape(p, i)
  ELSE IF p[i] = "[" THEN Class(p, i)
  ELSE IF p[i] \in { "*", "+" } THEN ParseError
  ELSE IF p[i] = "^" THEN AT("AT_BEGINNING", i + 1)
  ELSE LITERAL(Code(p[i]), i + 1)

\* The repeat that follows an atom ending before p[i]: "" for none, "*" and
\* "+" greedy, "*+" and "++" possessive.
Repeat(p, i) ==
  IF i > Len(p) \/ p[i] \notin { "*", "+" } THEN << >>
  ELSE IF i + 1 <= Len(p) /\ p[i + 1] = "+" THEN << p[i], "+" >>
  ELSE << p[i] >>

\* sre_parse.parse: the items of p[i..], after items; an assertion cannot be
\* repeated and a repeat cannot be repeated.
RECURSIVE Parse(_, _, _)

\* The atom a with the repeat q, then the rest of the pattern.
ParseItem(p, items, a, q) ==
  Parse(p, a.next + Len(q), Append(items, [ t |-> a.t, set |-> a.set, q |-> q ]))

\* The rest of the pattern after the atom a.
ParseAfter(p, items, a) ==
  IF a.err THEN [ err |-> TRUE, items |-> << >> ]
  ELSE IF a.t = "set" THEN ParseItem(p, items, a, Repeat(p, a.next))
  ELSE ParseItem(p, items, a, << >>)

Parse(p, i, items) ==
  IF i > Len(p) THEN [ err |-> FALSE, items |-> items ]
  ELSE CHOOSE r \in { ParseAfter(p, items, a) : a \in { ParseAtom(p, i) } } : TRUE

\* Whether a word boundary lies after the first pos characters of s.
IsBoundary(s, pos) ==
  LET before == pos >= 1 /\ s[pos] \in WordChars
      after  == pos < Len(s) /\ s[pos + 1] \in WordChars
  IN  before # after

\* The matcher: the end of the first match, in backtracking order, of
\* items[k..] on s from pos, or -1.  A greedy repeat takes the longest run
\* after which the rest matches, a possessive one the whole run or nothing.
RECURSIVE MatchItems(_, _, _, _)
MatchItems(items, k, s, pos) ==
  IF k > Len(items) THEN pos
  ELSE LET it  == items[k]
           run == RunLen(it.set, Drop(s, pos))
           min == IF it.q # << >> /\ it.q[1] = "+" THEN 1 ELSE 0
           fit == { n \in min..run : MatchItems(items, k + 1, s, pos + n) >= 0 }
       IN  IF it.t = "AT_BEGINNING"
             THEN IF pos = 0 THEN MatchItems(items, k + 1, s, pos) ELSE -1
           ELSE IF it.t = "AT_BOUNDARY"
             THEN IF IsBoundary(s, pos) THEN MatchItems(items, k + 1, s, pos) ELSE -1
           ELSE IF it.q = << >>
             THEN IF run >= 1 THEN MatchItems(items, k + 1, s, pos + 1) ELSE -1
           ELSE IF Len(it.q) = 2
             THEN IF run >= min THEN MatchItems(items, k + 1, s, pos + run) ELSE -1
           ELSE IF fit = {} THEN -1
           ELSE MatchItems(items, k + 1, s,
                           pos + CHOOSE n \in fit : \A m \in fit : m <= n)

\* The match object for a match of string[:e], None for e = -1.
MatchObject(string, e) ==
  [ error  |-> FALSE,
    found  |-> e >= 0,
    group0 |-> IF e >= 0 THEN SubSeq(string, 1, e) ELSE << >> ]

\* re.match for a parsed pattern.
MatchParsed(parsed, string) ==
  IF parsed.err THEN [ error |-> TRUE, found |-> FALSE, group0 |-> << >> ]
  ELSE MatchObject(string, MatchItems(parsed.items, 1, string, 0))

\* re.match(pattern, string): error for a raised re.error, found = FALSE for
\* None, else the match object with group0 = match.group(0).
re_match(pattern, string) ==
  CHOOSE m \in { MatchParsed(parsed, string) : parsed \in { Parse(pattern, 1, << >>) } } : TRUE

----------------------------------------------------------------------------
(* Rules *)

NoRule == [ kind |-> "None", text |-> <<>>, rules |-> <<>> ]

\* A plain Python str operand.
Str(text) == [ kind |-> "str", text |-> text, rules |-> <<>> ]

Literal(pattern) == [ kind |-> "Literal", text |-> pattern, rules |-> <<>> ]

Regex(pattern) == [ kind |-> "Regex", text |-> pattern, rules |-> <<>> ]

Ignore(rule, discard) == [ kind |-> "Ignore", text |-> <<>>, rules |-> << rule, discard >> ]

Repeating(rule) == [ kind |-> "Repeating", text |-> <<>>, rules |-> << rule >> ]

Atom(rule) == [ kind |-> "Atom", text |-> <<>>, rules |-> << rule >> ]

Maybe(rule) == [ kind |-> "Maybe", text |-> <<>>, rules |-> << rule >> ]

\* Maybe() : the rule field keeps its default, None.
MaybeNone == Maybe(NoRule)

\* isinstance(item, Regma)
IsRegma(item) ==
  item.kind \in { "Literal", "Regex", "Ignore", "Repeating", "Atom", "Maybe", "Alt", "Seq" }

\* isinstance(item, str)
IsStr(item) == item.kind = "str"

\* RegexGroup._normalize: a Regma child is kept and a str child becomes a
\* Literal; any other item (None, say) raises TypeError.  The outcome is
\* [kind |-> "ok", rules |-> the list r] or [kind |-> "TypeError"].
_normalize(seq) ==
  IF \E i \in DOMAIN seq : ~IsRegma(seq[i]) /\ ~IsStr(seq[i])
    THEN [ kind |-> "TypeError", rules |-> << >> ]
    ELSE [ kind  |-> "ok",
           rules |-> [ i \in DOMAIN seq |->
                       IF IsRegma(seq[i]) THEN seq[i] ELSE Literal(seq[i].text) ] ]

\* What an expression that raised the exception exc while building a rule
\* leaves: no rule.  It is neither a Regma nor a str, so a builder handed it
\* raises in turn.
Raised(exc) == [ kind |-> exc, text |-> <<>>, rules |-> <<>> ]

\* RegexGroup(rules=...) : the dataclass __init__ followed by __post_init__,
\* for the subclass kind.
RegexGroup(kind, rules) ==
  CHOOSE g \in { IF n.kind = "ok"
                   THEN [ kind |-> kind, text |-> <<>>, rules |-> n.rules ]
                   ELSE Raised("TypeError") :
                 n \in { _normalize(rules) } } : TRUE

\* Alt(rules=...)
Alt(rules) == RegexGroup("Alt", rules)

\* Seq(rules=...)
SeqRule(rules) == RegexGroup("Seq", rules)

\* The built-in constant Whitespace = Regex(r"\s+").
Whitespace == Regex(<< "\\", "s", "+" >>)

----------------------------------------------------------------------------
(* Match trees and outcomes *)

\* A leaf of a match tree: a str.
Tok(s) == [ leaf |-> TRUE, tok |-> s, kids |-> <<>> ]

\* A list of match trees.
List(kids) == [ leaf |-> FALSE, tok |-> <<>>, kids |-> kids ]

RECURSIVE ConcatAll(_)
ConcatAll(ss) == IF ss = <<>> THEN <<>> ELSE Head(ss) \o ConcatAll(Tail(ss))

\* _flattened_list: the leaves of ts, depth first, left to right.
RECURSIVE _flattened_list(_)
_flattened_list(ts) ==
  IF ts.leaf THEN << ts.tok >>
  ELSE ConcatAll([ i \in DOMAIN ts.kids |-> _flattened_list(ts.kids[i]) ])

\* "".join(tokens)
join(tokens) == ConcatAll(tokens)

Ok(stream, match) ==
  [ kind |-> "ok", stream |-> stream, match |-> match, rule |-> NoRule ]

FailedMatching(stream, rule) ==
  [ kind |-> "FailedMatching", stream |-> stream, match |-> List(<<>>), rule |-> rule ]

RemainingInput(stream) ==
  [ kind |-> "RemainingInput", stream |-> stream, match |-> List(<<>>), rule |-> NoRule ]

TypeError ==
  [ kind |-> "TypeError", stream |-> <<>>, match |-> List(<<>>), rule |-> NoRule ]

\* The AssertionError of a failed `assert self.rule is not None`.
AssertionError ==
  [ kind |-> "AssertionError", stream |-> <<>>, match |-> List(<<>>), rule |-> NoRule ]

\* re.error, raised by re.match for a pattern that does not compile.
ReError ==
  [ kind |-> "re.error", stream |-> <<>>, match |-> List(<<>>), rule |-> NoRule ]

Diverge ==
  [ kind |-> "diverge", stream |-> <<>>, match |-> List(<<>>), rule |-> NoRule ]

NoResult ==
  [ kind |-> "none", stream |-> <<>>, match |-> List(<<>>), rule |-> NoRule ]

----------------------------------------------------------------------------
(* Rule matching: rule(stream, ignore_whitespace=...) *)

RECURSIVE Match(_, _, _)

\* Literal.__call__
LiteralCall(self, stream, ignore_whitespace) ==
  LET s == IF ignore_whitespace THEN lstrip(stream) ELSE stream
  IN  IF startswith(s, self.text)
        THEN Ok(Drop(s, Len(self.text)), Tok(self.text))
        ELSE FailedMatching(s, self)

\* A variant of SkipWhitespace that skips nothing.
SkipWhitespace_none(stream) == stream

\* The stream after `with suppress(FailedMatching): (stream, _) = Whitespace(stream)`.
SkipWhitespace(stream) ==
  CHOOSE s \in { IF w.found THEN Drop(stream, Len(w.group0)) ELSE stream :
                   w \in { re_match(Whitespace.text, stream) } } : TRUE

\* Regex.__call__
RegexCall(self, stream, ignore_whitespace) ==
  CHOOSE r \in UNION {
           { IF m.error THEN ReError
             ELSE IF m.found
               THEN Ok(Drop(s, Len(m.group0)), List(<< Tok(m.group0) >>))
               ELSE FailedMatching(s, self) :
             m \in { re_match(self.text, s) } } :
           s \in { IF ignore_whitespace THEN SkipWhitespace(stream) ELSE stream } } : TRUE

\* self.discard(stream): the flag is not passed.  Literal.__call__ declares
\* ignore_whitespace keyword-only with no default, so a Literal discard raises
\* TypeError; every other rule takes the default, False.
DiscardCall(discard, stream) ==
  IF discard.kind = "Literal" THEN TypeError ELSE Match(discard, stream, FALSE)

\* Ignore.__call__
IgnoreCall(self, stream, ignore_whitespace) ==
  LET rule    == self.rules[1]
      discard == self.rules[2]
      d       == IF ignore_whitespace THEN DiscardCall(discard, stream) ELSE NoResult
  IN  CASE rule = NoRule \/ discard = NoRule -> AssertionError
        [] d.kind = "ok"             -> Match(rule, d.stream, ignore_whitespace)
        [] d.kind = "FailedMatching" -> Match(rule, stream, ignore_whitespace)
        [] d.kind = "none"           -> Match(rule, stream, ignore_whitespace)
        [] OTHER                     -> d

\* _map_exception(f, default=..., catch=[FailedMatching]) given f's outcome
\* r: a FailedMatching becomes the default, anything else is passed on.
_map_exception(r, default) ==
  IF r.kind = "FailedMatching" THEN default ELSE r

\* A variant of RepeatingTurn with a zero-progress guard: a match that
\* consumes nothing ends the loop.
RepeatingTurn_guarded(r, stream, matched) ==
  LET res == _map_exception(r, NoResult)
  IN  CASE res.kind = "none" \/ (res.kind = "ok" /\ res.stream = stream) ->
             [ pc |-> "return", stream |-> stream, matched |-> matched ]
        [] res.kind = "ok" ->
             [ pc |-> "loop", stream |-> res.stream, matched |-> Append(matched, res.match) ]
        [] OTHER ->
             [ pc |-> "raise", stream |-> stream, matched |-> matched ]

\* One turn of `while (result := f(stream)) is not None`, given the outcome
\* r of rule(stream): the loop's next [pc, stream, matched].  f maps a
\* FailedMatching to None (here NoResult), which ends the loop; a result is
\* unpacked and appended; anything else leaves the call.
RepeatingTurn(r, stream, matched) ==
  LET res == _map_exception(r, NoResult)
  IN  CASE res.kind = "none" ->
             [ pc |-> "return", stream |-> stream, matched |-> matched ]
        [] res.kind = "ok" ->
             [ pc |-> "loop", stream |-> res.stream, matched |-> Append(matched, res.match) ]
        [] OTHER ->
             [ pc |-> "raise", stream |-> stream, matched |-> matched ]

\* The while loop of Repeating.__call__ run to its end.  A turn that returns
\* the stream it was given is repeated for ever, since the child's match is a
\* function of the rule, the stream and the flag: the call never returns.
RECURSIVE RepeatingLoop(_, _, _, _)
RepeatingLoop(rule, stream, ignore_whitespace, matched) ==
  LET r == Match(rule, stream, ignore_whitespace)
      t == RepeatingTurn(r, stream, matched)
  IN  CASE t.pc = "return" -> Ok(t.stream, List(t.matched))
        [] t.pc = "loop"   -> IF t.stream = stream
                                THEN Diverge
                                ELSE RepeatingLoop(rule, t.stream, ignore_whitespace, t.matched)
        [] OTHER           -> r

\* Repeating.__call__
RepeatingCall(self, stream, ignore_whitespace) ==
  IF self.rules[1] = NoRule THEN AssertionError
  ELSE RepeatingLoop(self.rules[1], stream, ignore_whitespace, <<>>)

\* A variant of Atom.__call__ that keeps the first leaf only.
AtomCall_first(self, stream, ignore_whitespace) ==
  LET r == Match(self.rules[1], stream, ignore_whitespace)
      leaves == _flattened_list(r.match)
  IN  IF self.rules[1] = NoRule THEN AssertionError
      ELSE IF r.kind = "ok"
        THEN Ok(r.stream, List(<< Tok(IF leaves = << >> THEN << >> ELSE Head(leaves)) >>))
        ELSE r

\* Atom.__call__
AtomCall(self, stream, ignore_whitespace) ==
  LET r == Match(self.rules[1], stream, ignore_whitespace)
  IN  IF self.rules[1] = NoRule THEN AssertionError
      ELSE IF r.kind = "ok"
        THEN Ok(r.stream, List(<< Tok(join(_flattened_list(r.match))) >>))
        ELSE r

\* Maybe.__call__
MaybeCall(self, stream, ignore_whitespace) ==
  IF self.rules[1] = NoRule
    THEN Ok(stream, List(<<>>))
    ELSE _map_exception(Match(self.rules[1], stream, ignore_whitespace),
                        Ok(stream, List(<<>>)))

\* The for loop of Alt.__call__ from child i on.
RECURSIVE AltLoop(_, _, _, _)
AltLoop(self, i, stream, ignore_whitespace) ==
  IF i > Len(self.rules)
    THEN FailedMatching(stream, self)
    ELSE LET r == Match(self.rules[i], stream, ignore_whitespace)
         IN  IF r.kind = "FailedMatching"
               THEN AltLoop(self, i + 1, stream, ignore_whitespace)
               ELSE r

\* A variant of Alt.__call__ that prefers the alternative consuming most.
AltCall_longest(self, stream, ignore_whitespace) ==
  LET n == Len(self.rules)
      R(j) == Match(self.rules[j], stream, ignore_whitespace)
      oks == { j \in 1..n : R(j).kind = "ok" }
  IN  IF oks = {}
        THEN AltLoop(self, 1, stream, ignore_whitespace)
        ELSE R(CHOOSE j \in oks :
                 \A k \in oks : /\ Len(R(j).stream) <= Len(R(k).stream)
                                 /\ (Len(R(j).stream) = Len(R(k).stream) => j <= k))

\* Alt.__call__
AltCall(self, stream, ignore_whitespace) == AltLoop(self, 1, stream, ignore_whitespace)

\* The for loop of Seq.__call__ from child i on.
RECURSIVE SeqLoop(_, _, _, _, _)
SeqLoop(self, i, stream, ignore_whitespace, matched) ==
  IF i > Len(self.rules)
    THEN Ok(stream, List(matched))
    ELSE LET r == Match(self.rules[i], stream, ignore_whitespace)
         IN  IF r.kind = "ok"
               THEN SeqLoop(self, i + 1, r.stream, ignore_whitespace, Append(matched, r.match))
               ELSE r

\* A variant of Seq.__call__ that returns what matched before a failing child.
SeqCall_partial(self, stream, ignore_whitespace) ==
  LET r == SeqLoop(self, 1, stream, ignore_whitespace, <<>>)
  IN  IF r.kind = "FailedMatching" THEN Ok(r.stream, List(<< >>)) ELSE r

\* Seq.__call__
SeqCall(self, stream, ignore_whitespace) == SeqLoop(self, 1, stream, ignore_whitespace, <<>>)

\* rule(stream, ignore_whitespace=ignore_whitespace): dispatch on the class.
\* What is not a rule (None, a str) is not callable: TypeError.
Match(rule, stream, ignore_whitespace) ==
  CASE rule.kind = "Literal"   -> LiteralCall(rule, stream, ignore_whitespace)
    [] rule.kind = "Regex"     -> RegexCall(rule, stream, ignore_whitespace)
    [] rule.kind = "Ignore"    -> IgnoreCall(rule, stream, ignore_whitespace)
    [] rule.kind = "Repeating" -> RepeatingCall(rule, stream, ignore_whitespace)
    [] rule.kind = "Atom"      -> AtomCall(rule, stream, ignore_whitespace)
    [] rule.kind = "Maybe"     -> MaybeCall(rule, stream, ignore_whitespace)
    [] rule.kind = "Alt"       -> AltCall(rule, stream, ignore_whitespace)
    [] rule.kind = "Seq"       -> SeqCall(rule, stream, ignore_whitespace)
    [] OTHER                   -> TypeError

----------------------------------------------------------------------------
(* Composition algebra *)

\* Regma.__add__ / RegexGroup.__add__ / Regma.__radd__ : a + b.  With a rule
\* on either side the library builds Seq(rules=[a, b]); two str concatenate
\* and everything else has no +.
add(a, b) ==
  IF IsRegma(a) \/ IsRegma(b) THEN SeqRule(<< a, b >>)
  ELSE IF IsStr(a) /\ IsStr(b) THEN Str(a.text \o b.text)
  ELSE Raised("TypeError")

\* Regma.__or__ / RegexGroup.__or__ / Alt.__or__ : a | b.  There is no
\* __ror__: the left operand has to be a rule.
or(a, b) ==
  IF a.kind = "Alt" THEN Alt(a.rules \o << b >>)
  ELSE IF IsRegma(a) THEN Alt(<< a, b >>)
  ELSE Raised("TypeError")

\* self.method(): r when self is a rule; a str or None has no such method.
Method(self, r) == IF IsRegma(self) THEN r ELSE Raised("AttributeError")

\* Regma.repeating
repeating(self) == Method(self, Repeating(self))

\* Regma.optional
optional(self) == Method(self, Maybe(self))

\* Regma.atom
atom(self) == Method(self, Atom(self))

\* Regma.capture
capture(self) == Method(self, SeqRule(<< self >>))

\* Regma.multiple / Maybe.multiple / Seq.multiple
multiple(self) ==
  IF self.kind = "Maybe"
    THEN IF self.rules[1] = NoRule THEN Raised("AssertionError")
         ELSE Repeating(self.rules[1])
    ELSE Method(self, SeqRule(<< self, Repeating(self) >>))

\* A variant of exactly that returns the Seq it built.
exactly_seq(self, n) ==
  LET seq == [ SeqRule(<<>>) EXCEPT !.rules = [ k \in 1..n |-> self ] ]
  IN  [ self |-> self, ret |-> Method(self, seq) ]

\* Regma.exactly: seq collects n references to self and is dropped.  The
\* value is [self, ret]: the receiver after the call and the rule returned.
exactly(self, n) ==
  LET seq == [ SeqRule(<<>>) EXCEPT !.rules = [ k \in 1..n |-> self ] ]
  IN  [ self |-> self, ret |-> Method(self, self) ]

\* Regma.many: seq collects m references to self and n to self.optional(),
\* and is dropped.
many(self, m, n) ==
  LET seq == [ SeqRule(<<>>) EXCEPT
                 !.rules = [ k \in 1..m |-> self ] \o [ k \in 1..n |-> optional(self) ] ]
  IN  [ self |-> self, ret |-> Method(self, self) ]

----------------------------------------------------------------------------
(* Inputs *)

a == Literal(<< "a" >>)

b == Literal(<< "b" >>)

ab == Literal(<< "a", "b" >>)

\* Regex("[0-9]+"), Regex("[0-9]"), Regex("[0-9]*")
digits == Regex(<< "[", "0", "-", "9", "]", "+" >>)

digit == Regex(<< "[", "0", "-", "9", "]" >>)

digits0 == Regex(<< "[", "0", "-", "9", "]", "*" >>)

\* The text of r"[\+\-\*\/\^]".
operator_class == << "[", "\\", "+", "\\", "-", "\\", "*", "\\", "/", "\\", "^", "]" >>

\* examples/postfix_notation.py
whitespace == Regex(<< "\\", "s", "+" >>)

number == Regex(<< "\\", "d", "+" >>)

postfix_notation ==
  add(add(number, whitespace), repeating(or(or(number, whitespace), Str(operator_class))))

\* A number or one of + - * / ^, repeated.
number_or_operator == repeating(or(number, Regex(operator_class)))

\* Regex(r"\b"), which matches the empty string at a word boundary.
boundary == Regex(<< "\\", "b" >>)

\* Regex("[0-9"), a pattern re cannot compile.
unterminated == Regex(<< "[", "0", "-", "9" >>)

Rules ==
  { a, digits, digits0,
    or(a, ab), or(ab, a), or(or(a, b), ab), or(add(a, b), a),
    add(a, Str(<< "b" >>)), add(add(a, b), repeating(optional(b))), add(a, digits),
    optional(a), optional(add(a, b)), optional(digits), MaybeNone,
    repeating(a), repeating(digit), repeating(or(digits, a)), repeating(add(a, b)),
    repeating(optional(a)), repeating(digits0), repeating(or(b, digits0)),
    or(repeating(optional(b)), a),
    atom(repeating(digit)), atom(add(a, digits)),
    capture(a), multiple(a), multiple(optional(a)),
    Ignore(digits, Whitespace), Ignore(a, Literal(<< " " >>)),
    optional(Ignore(a, Literal(<< " " >>))),
    add(boundary, digits), optional(unterminated),
    number_or_operator, postfix_notation }

Sigma == { "a", "b", " ", "1" }

Streams == UNION { [ 1..n -> Sigma ] : n \in 0..MaxLen }

\* The calls the documentation works through.
Examples ==
  { [ rule |-> or(a, ab), stream |-> << "a", "b" >>, iw |-> FALSE ],
    [ rule |-> add(a, b), stream |-> << "a", "c" >>, iw |-> FALSE ],
    [ rule |-> digits, stream |-> << "1", "2", "3" >>, iw |-> FALSE ],
    [ rule |-> digits, stream |-> << "1", "2", "3", "x" >>, iw |-> FALSE ],
    [ rule |-> digits, stream |-> << " ", " ", " ", "4", "2" >>, iw |-> TRUE ],
    [ rule |-> digits, stream |-> << " ", " ", " ", "4", "2" >>, iw |-> FALSE ],
    [ rule |-> atom(repeating(digit)), stream |-> << "1", "2", "3", "a", "b", "c" >>, iw |-> FALSE ],
    [ rule |-> number_or_operator, stream |-> << "3", " ", "4", " ", "+" >>, iw |-> TRUE ],
    [ rule |-> postfix_notation, stream |-> << "3", " ", "4", " ", "+" >>, iw |-> FALSE ],
    [ rule |-> postfix_notation, stream |-> << "3", " ", "4", " ", "1" >>, iw |-> FALSE ] }

Inputs ==
  { [ rule |-> r, stream |-> s, iw |-> w ] : r \in Rules, s \in Streams, w \in BOOLEAN }
    \cup Examples

----------------------------------------------------------------------------
(* The program: a rule, a stream and a flag are chosen; then the rule is   *)
(* called, lexed with (a generator its consumer resumes token by token),   *)
(* run turn by turn (a Repeating), or handed to a bounded-repetition       *)
(* helper whose result is then called.                                     *)

VARIABLES
  rule,               \* the rule built by the composition algebra
  stream,             \* the caller's input text
  ignore_whitespace,  \* the flag of the call
  pc,                 \* where the program is
  op,                 \* the helper call made: << name, arguments >>
  built,              \* what the helper returned
  its,                \* lex: the rules `for rule in self` goes through
  i,                  \* lex: index in its of the next rule to call
  cur,                \* lex / Repeating.__call__: the local variable stream
  tokens,             \* lex: the tokens the consumer has received
  pending,            \* lex: the leaves of the last match not yet yielded
  matched,            \* Repeating.__call__: the local list matched
  result              \* the outcome of the finished call

vars ==
  << rule, stream, ignore_whitespace, pc, op, built, its, i, cur, tokens, pending, matched,
     result >>

Init ==
  /\ \E inp \in Inputs :
       /\ rule = inp.rule
       /\ stream = inp.stream
       /\ ignore_whitespace = inp.iw
  /\ pc = "idle"
  /\ op = << >>
  /\ built = NoRule
  /\ its = << >>
  /\ i = 0
  /\ cur = << >>
  /\ tokens = << >>
  /\ pending = << >>
  /\ matched = << >>
  /\ result = NoResult

\* rule(stream, ignore_whitespace=ignore_whitespace)
Call ==
  /\ pc = "idle"
  /\ result' = Match(rule, stream, ignore_whitespace)
  /\ pc' = "returned"
  /\ UNCHANGED << rule, stream, ignore_whitespace, op, built, its, i, cur, tokens, pending,
                  matched >>

\* built = rule.exactly(n)
Exactly ==
  /\ pc = "idle"
  /\ \E n \in 0..MaxCount :
       LET r == exactly(rule, n)
       IN  /\ rule' = r.self
           /\ built' = r.ret
           /\ op' = << "exactly", n >>
  /\ pc' = "built"
  /\ UNCHANGED << stream, ignore_whitespace, its, i, cur, tokens, pending, matched, result >>

\* built = rule.many(m, n)
Many ==
  /\ pc = "idle"
  /\ \E m \in 0..MaxCount, n \in 0..MaxCount :
       LET r == many(rule, m, n)
       IN  /\ rule' = r.self
           /\ built' = r.ret
           /\ op' = << "many", m, n >>
  /\ pc' = "built"
  /\ UNCHANGED << stream, ignore_whitespace, its, i, cur, tokens, pending, matched, result >>

\* built(stream, ignore_whitespace=ignore_whitespace)
CallBuilt ==
  /\ pc = "built"
  /\ result' = Match(built, stream, ignore_whitespace)
  /\ pc' = "built_returned"
  /\ UNCHANGED << rule, stream, ignore_whitespace, op, built, its, i, cur, tokens, pending,
                  matched >>

\* The rules Regex.lex goes through: a rule that is neither a Seq nor a plain
\* Regex is lexed as Seq(rules=[self]); a plain Regex iterates to itself.
lex_rules(self) ==
  IF self.kind \notin { "Seq", "Regex" } THEN SeqRule(<< self >>).rules
  ELSE IF self.kind = "Regex" THEN << self >>
  ELSE self.rules

\* gen = rule.lex(stream, ...): the generator is made with its arguments and
\* stays suspended, nothing of its body has run and the consumer holds no
\* token.  Literal is not a Regex and has no lex.
LexStart ==
  /\ pc = "idle"
  /\ rule.kind # "Literal"
  /\ its' = lex_rules(rule)
  /\ i' = 1
  /\ cur' = stream
  /\ tokens' = << >>
  /\ pending' = << >>
  /\ pc' = "lex_suspended"
  /\ UNCHANGED << rule, stream, ignore_whitespace, op, built, matched, result >>

\* next(gen): the consumer resumes the suspended generator.
LexNext ==
  /\ pc = "lex_suspended"
  /\ pc' = "lex"
  /\ UNCHANGED << rule, stream, ignore_whitespace, op, built, its, i, cur, tokens, pending,
                  matched, result >>

\* gen.close(), or the consumer drops the suspended generator: its body
\* never runs again.
LexClose ==
  /\ pc = "lex_suspended"
  /\ pc' = "lex_closed"
  /\ UNCHANGED << rule, stream, ignore_whitespace, op, built, its, i, cur, tokens, pending,
                  matched, result >>

\* A variant of LexStep that goes on to the next rule when one fails.
LexStep_skip ==
  /\ pc = "lex"
  /\ pending = << >>
  /\ i <= Len(its)
  /\ LET r == Match(its[i], cur, ignore_whitespace)
     IN  IF r.kind = "ok"
           THEN /\ cur' = r.stream
                /\ pending' = _flattened_list(r.match)
           ELSE UNCHANGED << cur, pending >>
  /\ i' = i + 1
  /\ UNCHANGED << rule, stream, ignore_whitespace, pc, op, built, its, tokens, matched,
                  result >>

\* The head of a turn of the for loop of Regex.lex: the next rule is called;
\* an exception leaves the generator, else the stream moves on and the leaves
\* of the match wait to be yielded.
LexStep ==
  /\ pc = "lex"
  /\ pending = << >>
  /\ i <= Len(its)
  /\ LET r == Match(its[i], cur, ignore_whitespace)
     IN  IF r.kind = "ok"
           THEN /\ cur' = r.stream
                /\ pending' = _flattened_list(r.match)
                /\ i' = i + 1
                /\ UNCHANGED << pc, result >>
           ELSE /\ pc' = IF r.kind = "diverge" THEN "lex_hung" ELSE "lex_raised"
                /\ result' = r
                /\ UNCHANGED << cur, pending, i >>
  /\ UNCHANGED << rule, stream, ignore_whitespace, op, built, its, tokens, matched >>

\* `yield from _flattened_list(match)`: one leaf goes to the consumer and the
\* generator is suspended until the consumer asks for the next.
LexYield ==
  /\ pc = "lex"
  /\ pending # << >>
  /\ tokens' = Append(tokens, Head(pending))
  /\ pending' = Tail(pending)
  /\ pc' = "lex_suspended"
  /\ UNCHANGED << rule, stream, ignore_whitespace, op, built, its, i, cur, matched, result >>

\* A variant of LexEnd without the check for remaining input.
LexEnd_unchecked ==
  /\ pc = "lex"
  /\ pending = << >>
  /\ i > Len(its)
  /\ pc' = "lex_done"
  /\ UNCHANGED << rule, stream, ignore_whitespace, op, built, its, i, cur, tokens, pending,
                  matched, result >>

\* After the for loop of Regex.lex: `if stream: raise RemainingInput(stream)`.
LexEnd ==
  /\ pc = "lex"
  /\ pending = << >>
  /\ i > Len(its)
  /\ IF cur # << >>
       THEN /\ pc' = "lex_raised"
            /\ result' = RemainingInput(cur)
       ELSE /\ pc' = "lex_done"
            /\ UNCHANGED result
  /\ UNCHANGED << rule, stream, ignore_whitespace, op, built, its, i, cur, tokens, pending,
                  matched >>

\* Repeating.__call__ as far as the head of its while loop.
RepeatingStart ==
  /\ pc = "idle"
  /\ rule.kind = "Repeating"
  /\ cur' = stream
  /\ matched' = << >>
  /\ IF rule.rules[1] = NoRule
       THEN pc' = "while_raised" /\ result' = AssertionError
       ELSE pc' = "while" /\ UNCHANGED result
  /\ UNCHANGED << rule, stream, ignore_whitespace, op, built, its, i, tokens, pending >>

\* One turn of the while loop of Repeating.__call__.
RepeatingStep ==
  /\ pc = "while"
  /\ Len(matched) < MaxIter
  /\ \E r \in { Match(rule.rules[1], cur, ignore_whitespace) } :
       \E t \in { RepeatingTurn(r, cur, matched) } :
         /\ cur' = t.stream
         /\ matched' = t.matched
         /\ pc' = CASE t.pc = "loop"   -> "while"
                    [] t.pc = "return" -> "while_returned"
                    [] r.kind = "diverge" -> "while_hung"
                    [] OTHER           -> "while_raised"
         /\ result' = CASE t.pc = "loop"   -> result
                        [] t.pc = "return" -> Ok(t.stream, List(t.matched))
                        [] OTHER           -> r
  /\ UNCHANGED << rule, stream, ignore_whitespace, op, built, its, i, tokens, pending >>

Next ==
  \/ Call
  \/ Exactly
  \/ Many
  \/ CallBuilt
  \/ LexStart
  \/ LexNext
  \/ LexClose
  \/ LexStep
  \/ LexYield
  \/ LexEnd
  \/ RepeatingStart
  \/ RepeatingStep

Spec == Init /\ [][Next]_vars

\* Repeating.__call__ alone, run turn by turn.
NextRepeating ==
  \/ RepeatingStart
  \/ RepeatingStep

\* The inputs whose rule is a Repeating.
InitRepeating == Init /\ rule.kind = "Repeating"

\* The interpreter keeps running a loop that can take another turn.
FairSpec == InitRepeating /\ [][NextRepeating]_vars /\ WF_vars(NextRepeating)

----------------------------------------------------------------------------
(* Properties *)

\* s is a suffix of t.
IsSuffix(s, t) == Len(s) <= Len(t) /\ Drop(t, Len(t) - Len(s)) = s

\* The outcome of child j of the rule on the caller's stream.
ChildOn(j) == Match(rule.rules[j], stream, ignore_whitespace)

\* C1: an Alternation returns exactly the outcome (remaining stream and match
\* tree, no extra nesting) of the first child, in list order, that matches the
\* starting stream, every child before it having failed on that same stream;
\* it raises FailedMatching iff every child fails; a later, longer
\* alternative is never preferred: alternate(Literal("a"), Literal("ab")) on
\* "ab" consumes "a" and leaves "b".
C1_AltFirstSuccess ==
  (pc = "returned" /\ rule.kind = "Alt") =>
    LET n == Len(rule.rules)
        first == { j \in 1..n : /\ ChildOn(j).kind = "ok"
                                /\ \A k \in 1..(j - 1) : ChildOn(k).kind = "FailedMatching" }
    IN  /\ \A j \in first : result = ChildOn(j)
        /\ result.kind = "ok" => first # {}
        /\ result.kind = "FailedMatching" <=> \A j \in 1..n : ChildOn(j).kind = "FailedMatching"
        /\ result.kind = "FailedMatching" => result.stream = stream /\ result.rule = rule
        /\ (rule = Alt(<< a, ab >>) /\ stream = << "a", "b" >> /\ ~ignore_whitespace)
             => result = Ok(<< "b" >>, Tok(<< "a" >>))

C1_Witness ==
  /\ pc = "returned"
  /\ rule = Alt(<< a, ab >>)
  /\ stream = << "a", "b" >>
  /\ result.kind = "ok"
  /\ result.stream = << "b" >>

\* The outcome of Seq.__call__ over the first k of the rules rs, on the
\* caller's stream.
PrefixOn(rs, k) == SeqCall(SeqRule(SubSeq(rs, 1, k)), stream, ignore_whitespace)

\* C2: lex goes through the rule itself (wrapped in a singleton Seq unless it
\* is a Seq or a plain Regex) or through the children of a Seq, in order;
\* when every child matches, the tokens yielded are the depth-first,
\* left-to-right leaves of the children's match trees, and the call ends
\* normally iff the remaining stream is empty, else it raises RemainingInput
\* carrying the leftover text.  lex(Pattern("[0-9]+"), "123") yields ["123"];
\* lex(Pattern("[0-9]+"), "123x") raises RemainingInput.
C2_LexFlattensAndChecksRemainder ==
  (pc \in { "lex_done", "lex_raised", "lex_hung" }) =>
    LET whole == PrefixOn(its, Len(its))
    IN  /\ its = IF rule.kind = "Seq" THEN rule.rules ELSE << rule >>
        /\ whole.kind = "ok" =>
             /\ tokens = _flattened_list(whole.match)
             /\ pc = "lex_done" <=> whole.stream = << >>
             /\ pc # "lex_done" =>
                  /\ pc = "lex_raised"
                  /\ result = RemainingInput(whole.stream)
        /\ pc = "lex_done" => whole.kind = "ok"
        /\ (pc = "lex_raised" /\ result.kind = "RemainingInput") => whole.kind = "ok"
        /\ (rule = digits /\ stream = << "1", "2", "3" >>)
             => pc = "lex_done" /\ tokens = << << "1", "2", "3" >> >>
        /\ (rule = digits /\ stream = << "1", "2", "3", "x" >> /\ ~ignore_whitespace)
             => result = RemainingInput(<< "x" >>)

C2_Witness ==
  /\ pc = "lex_raised"
  /\ rule = digits
  /\ stream = << "1", "2", "3", "x" >>
  /\ result.kind = "RemainingInput"
  /\ tokens = << << "1", "2", "3" >> >>

\* The stream handed to child k + 1 of the rules rs when children 1..k match.
RECURSIVE StreamAfter(_, _)
StreamAfter(rs, k) ==
  IF k = 0 THEN stream
  ELSE Match(rs[k], StreamAfter(rs, k - 1), ignore_whitespace).stream

\* Children 1..j-1 of the rules rs match one after the other and child j
\* fails on the stream they leave.
FailsAt(rs, j) ==
  /\ \A k \in 1..(j - 1) :
       Match(rs[k], StreamAfter(rs, k - 1), ignore_whitespace).kind = "ok"
  /\ Match(rs[j], StreamAfter(rs, j - 1), ignore_whitespace).kind = "FailedMatching"

\* C3: a Sequence is all-or-nothing: when child i fails on the stream left by
\* children 1..i-1, the Sequence raises that child's FailedMatching, no later
\* child is attempted (a later child that would never return is not run), no
\* earlier child is tried again, and the caller sees no consumption: an
\* Optional or an Alternation around the Sequence goes on from the stream
\* the Sequence was given.  sequence(Literal("a"), Literal("b")) on "ac" fails.
C3_SeqAllOrNothing ==
  (pc = "returned" /\ rule.kind = "Seq") =>
    /\ \A j \in 1..Len(rule.rules) :
         FailsAt(rule.rules, j) =>
           /\ result = Match(rule.rules[j], StreamAfter(rule.rules, j - 1), ignore_whitespace)
           /\ result.kind = "FailedMatching"
           /\ Match(optional(rule), stream, ignore_whitespace) = Ok(stream, List(<< >>))
           /\ Match(or(rule, MaybeNone), stream, ignore_whitespace) = Ok(stream, List(<< >>))
    /\ result.kind = "FailedMatching" => \E j \in 1..Len(rule.rules) : FailsAt(rule.rules, j)
    /\ (rule = SeqRule(<< a, b >>) /\ stream = << "a", "c" >> /\ ~ignore_whitespace)
         => result = FailedMatching(<< "c" >>, b)

C3_Witness ==
  /\ pc = "returned"
  /\ rule = SeqRule(<< SeqRule(<< a, b >>), Repeating(Maybe(b)) >>)
  /\ stream = << "a", "1" >>
  /\ result.kind = "FailedMatching"
  /\ result.stream = << "1" >>

\* C4: Optional and Repetition never fail: for every child rule, every stream
\* and either whitespace flag, a Maybe or a Repeating of the rule whose
\* matching comes to an end returns a success, and when the child rejects the
\* stream the outcome is exactly (stream, []), the stream as the caller gave
\* it, leading whitespace included.  The code does not keep this: Maybe and
\* Repeating catch FailedMatching only, and Ignore.__call__ calls a Literal
\* discard without the keyword it requires, so
\* Maybe(Ignore(Literal("a"), Literal(" "))) with the flag raises TypeError.
C4_MaybeRepeatingNeverFail ==
  (pc = "returned" /\ rule.kind \in { "Maybe", "Repeating" } /\ rule.rules[1] # NoRule) =>
    /\ result.kind \in { "ok", "diverge" }
    /\ ChildOn(1).kind = "FailedMatching" => result = Ok(stream, List(<< >>))

\* C5: with ignore_whitespace a Regex or Literal leaf first drops the leading
\* run of whitespace (none is no failure) and matches at the trimmed
\* position, so the outcome is that of the plain match on the trimmed stream
\* and the skipped whitespace is in no token; without the flag nothing is
\* skipped.  Pattern("[0-9]+") on "   42" gives token "42" and an empty
\* remainder with the flag and fails without it; lexing "3 4 +" with a
\* repeated number-or-operator rule yields "3", "4", "+".
C5_WhitespaceSkip ==
  /\ (pc = "returned" /\ rule.kind \in { "Regex", "Literal" }) =>
       /\ ignore_whitespace =>
            /\ result = Match(rule, lstrip(stream), FALSE)
            /\ result.kind = "ok" =>
                 \A t \in DOMAIN _flattened_list(result.match) :
                   LET tok == _flattened_list(result.match)[t]
                   IN  tok # << >> => tok[1] \notin SpaceChars
       /\ (~ignore_whitespace /\ result.kind = "ok") =>
            join(_flattened_list(result.match)) \o result.stream = stream
       /\ (rule = digits /\ stream = << " ", " ", " ", "4", "2" >>) =>
            result = IF ignore_whitespace
                       THEN Ok(<< >>, List(<< Tok(<< "4", "2" >>) >>))
                       ELSE FailedMatching(stream, digits)
  /\ (/\ pc \in { "lex_done", "lex_raised", "lex_hung" }
      /\ rule = number_or_operator
      /\ stream = << "3", " ", "4", " ", "+" >>
      /\ ignore_whitespace)
       => pc = "lex_done" /\ tokens = << << "3" >>, << "4" >>, << "+" >> >>

C5_Witness ==
  /\ pc = "returned"
  /\ rule = digits
  /\ stream = << " ", " ", " ", "4", "2" >>
  /\ ignore_whitespace
  /\ result.kind = "ok"
  /\ result.stream = << >>

\* C6, as claimed: whenever a lex call fails (FailedMatching or
\* RemainingInput) its consumer has received no token from it.
C6_NoTokenBeforeFailure ==
  (pc = "lex_raised" /\ result.kind \in { "FailedMatching", "RemainingInput" }) =>
    tokens = << >>

\* C6, amended: when a top-level child fails, lex raises that child's
\* FailedMatching at once: the children before it all matched, none after it
\* is attempted, and the call never ends normally.  lex is a generator that
\* hands over one token at a time, so at every moment the consumer holds a
\* prefix of the leaves of the children that have matched, and when the
\* failure is raised it has received exactly the leaves of the children that
\* matched before it (before a RemainingInput: of all the children) and
\* nothing from the failing child.
C6_FailureAfterMatchedTokensOnly ==
  /\ (pc \in { "lex_suspended", "lex", "lex_closed", "lex_raised", "lex_hung", "lex_done" }) =>
       LET before == PrefixOn(its, i - 1)
       IN  /\ i \in 1..(Len(its) + 1)
           /\ before.kind = "ok"
           /\ cur = before.stream
           /\ tokens \o pending = _flattened_list(before.match)
  /\ (pc \in { "lex_raised", "lex_hung", "lex_done" }) => pending = << >>
  /\ (pc = "lex_raised" /\ result.kind = "FailedMatching") =>
       /\ i <= Len(its)
       /\ result = Match(its[i], cur, ignore_whitespace)
  /\ (pc = "lex_raised" /\ result.kind = "RemainingInput") =>
       /\ i = Len(its) + 1
       /\ result.stream = cur
       /\ cur # << >>
  /\ pc = "lex_done" =>
       /\ i = Len(its) + 1
       /\ cur = << >>
       /\ result = NoResult
  /\ (pc \in { "lex_suspended", "lex", "lex_closed", "lex_done" }) =>
       \A j \in 1..(i - 1) : ~FailsAt(its, j)

C6_Witness ==
  /\ pc = "lex_raised"
  /\ rule = SeqRule(<< a, digits >>)
  /\ stream = << "a", "b" >>
  /\ result.kind = "FailedMatching"
  /\ i = 2
  /\ tokens = << << "a" >> >>

\* C7: exactly(n) and many(m, n) return the rule itself and leave it as it
\* was, for every n and m from 0 on, so that matching what they return gives
\* the outcome of matching the rule once, not n (or m up to m + n)
\* occurrences.
C7_BoundedHelpersAreNoOps ==
  /\ [](pc \in { "built", "built_returned" } => built = rule)
  /\ [](pc = "built_returned" => result = Match(rule, stream, ignore_whitespace))
  /\ [][pc' = "built" => (rule' = rule /\ built' = rule)]_vars

C7_Witness ==
  /\ pc = "built_returned"
  /\ op = << "exactly", 2 >>
  /\ rule = a
  /\ stream = << "a", "a" >>
  /\ result = Ok(<< "a" >>, Tok(<< "a" >>))

\* C8, as claimed: the postfix example's rule accepts "3 4 +": lex, without
\* whitespace skipping, ends normally having yielded "3", " ", "4", " ", "+".
C8_PostfixExampleAccepts ==
  (/\ pc \in { "lex_done", "lex_raised", "lex_hung" }
   /\ rule = postfix_notation
   /\ stream = << "3", " ", "4", " ", "+" >>
   /\ ~ignore_whitespace)
    => /\ pc = "lex_done"
       /\ tokens = << << "3" >>, << " " >>, << "4" >>, << " " >>, << "+" >> >>

\* A turn of the while loop in which the child matches and consumes nothing.
ZeroProgress ==
  /\ pc = "while"
  /\ LET r == Match(rule.rules[1], cur, ignore_whitespace)
     IN  r.kind = "ok" /\ r.stream = cur

\* C9: a Repetition on a finite stream returns as long as every match of the
\* child in the loop consumes a character: the loop then takes at most
\* len(stream) turns, stops at the child's first failure, and has consumed
\* all it can (run again on its remainder it consumes nothing).  Once the
\* child matches without consuming, the loop never leaves: every further turn
\* keeps the stream and grows the match list, and nothing is raised.
C9_RepeatingTermination ==
  /\ []((pc \in { "while", "while_returned" } /\ ~ZeroProgress) =>
          Len(matched) + Len(cur) <= Len(stream))
  /\ [](pc = "while_returned" =>
          /\ result = Ok(cur, List(matched))
          /\ result = Match(rule, stream, ignore_whitespace)
          /\ Match(rule.rules[1], cur, ignore_whitespace).kind = "FailedMatching"
          /\ Match(rule, cur, ignore_whitespace) = Ok(cur, List(<< >>)))
  /\ [](ZeroProgress => Match(rule, stream, ignore_whitespace).kind = "diverge")
  /\ [][ZeroProgress =>
          /\ pc' = "while"
          /\ cur' = cur
          /\ Len(matched') = Len(matched) + 1
          /\ result' = NoResult]_vars
  /\ (pc = "while") ~> (pc \in { "while_returned", "while_raised", "while_hung" } \/ ZeroProgress)

C9_Witness ==
  /\ pc = "while"
  /\ ZeroProgress
  /\ Len(matched) >= 3
  /\ cur = << "b" >>
  /\ stream = << "a", "b" >>

\* C10: a successful match returns a suffix of the stream it was given, and
\* without whitespace skipping the leaves of its match tree, concatenated in
\* order and followed by the remaining stream, spell the stream: no character
\* is lost, duplicated or moved, under Atom as well.
C10_Conservation ==
  (pc = "returned" /\ result.kind = "ok") =>
    /\ IsSuffix(result.stream, stream)
    /\ ~ignore_whitespace =>
         join(_flattened_list(result.match)) \o result.stream = stream

C10_Witness ==
  /\ pc = "returned"
  /\ rule = Atom(SeqRule(<< a, digits >>))
  /\ ~ignore_whitespace
  /\ stream = << "a", "1" >>
  /\ result = Ok(<< >>, List(<< Tok(<< "a", "1" >>) >>))

====
